---- MODULE Spec2Model ----
(***************************************************************************)
(* Model of src/app.py: the frame pool (MemoryManager), the demand pager   *)
(* (Pager) with its FIFO / LRU replacement bookkeeping, and the handlers   *)
(* that drive them (on_deallocate, on_apply_config), which the server runs  *)
(* on threads of their own beside the background run loop.                *)
(***************************************************************************)
EXTENDS Integers, Sequences, FiniteSets, TLC

\* ---------------------------------------------------------------- bounds
\* Largest frame count a configuration may yield.
MaxFrames == 2
\* Largest virtual page number an access may name (pages are 0..MaxPage).
MaxPage == 1
\* Number of access_page calls explored.
MaxFaults == 4
\* alloc_pages calls explored.
MaxAllocs == 1
\* successful free_pid calls explored.
MaxDeallocs == 1

\* ------------------------------------------------------------- constants
\* frame size used by the configurations explored (MemoryManager default).
FrameKb == 64

Pids == {"P1", "P2"}
Pages == 0..MaxPage
Algorithms == {"FIFO", "LRU"}
\* Python's None for a pid, and for a frame index / page label.
NoPid == "None"
NoFrame == -1
NoLabel == -1

VARIABLES
  total_kb,       \* MemoryManager.total_kb
  frame_kb,       \* MemoryManager.frame_kb
  frames,         \* MemoryManager.frames: idx -> [pid, label]
  free_frames,    \* MemoryManager.free_frames
  pid_to_frames,  \* MemoryManager.pid_to_frames: pid -> set of frame indices
  page_faults, allocations, deallocations,
  algorithm,      \* Pager.algorithm
  page_tables,    \* Pager.page_tables: pid -> (page -> frame index or NoFrame)
  fifo,           \* Pager.fifo: queue of frame indices
  lru,            \* Pager.lru: the (pid, page) keys in the OrderedDict's order
  loadOrder,      \* history: the frames holding a loaded page, earliest load first
  useOrder,       \* history: the frames holding a loaded page, least recently accessed first
  evicted,        \* history: the (pid, page) pairs evicted and not loaded again since
  result,         \* what the last operation did / returned
  threads         \* per server thread: where it stands inside access_page

vars == <<total_kb, frame_kb, frames, free_frames, pid_to_frames, page_faults, allocations,
          deallocations, algorithm, page_tables, fifo, lru, loadOrder,
          useOrder, evicted, result, threads>>

\* ---------------------------------------------------------------- helpers
FreeFrame == [pid |-> NoPid, label |-> NoLabel]

EmptyTable == [p \in {} |-> NoFrame]


\* d[k] = v added to (or overwritten in) the dict d
DictSet(d, k, v) == [x \in (DOMAIN d) \cup {k} |-> IF x = k THEN v ELSE d[x]]

\* del d[k]
DictDel(d, k) == [x \in (DOMAIN d) \ {k} |-> d[x]]

\* f.pid = None; f.label = None for every frame index in S
ClearFrames(fr, S) == [i \in DOMAIN fr |-> IF i \in S THEN FreeFrame ELSE fr[i]]

\* self.lru[key] = time.time(); self.lru.move_to_end(key): the key becomes the
\* last one. The timestamp stored as the value is never read by the program.
LruTouch(l, pid, page_no) ==
  SelectSeq(l, LAMBDA e : ~(e.pid = pid /\ e.page = page_no))
    \o <<[pid |-> pid, page |-> page_no]>>

\* Python's a // b (floor division) for b # 0
FloorDiv(a, b) == IF b > 0 THEN a \div b ELSE (0 - a) \div (0 - b)

\* max(1, total_kb // frame_kb)
FrameCount(total, frame) ==
  LET q == FloorDiv(total, frame) IN IF q > 1 THEN q ELSE 1

\* MemoryManager.used_and_total
used_and_total(s) ==
  <<Cardinality({i \in DOMAIN s.frames : s.frames[i].pid # NoPid}), Cardinality(DOMAIN s.frames)>>

\* history: the frames in S hold no loaded page any more
Forget(h, S) == SelectSeq(h, LAMBDA i : i \notin S)

\* history: frame i holds the page loaded or accessed last
Latest(h, i) == Append(Forget(h, {i}), i)

\* the result record of an operation
Res(op, pid, page, status, frame) ==
  [op |-> op, pid |-> pid, page |-> page, status |-> status, frame |-> frame]

\* the whole state as one value, so that handlers compose
Cur ==
  [total_kb |-> total_kb, frame_kb |-> frame_kb,
   frames |-> frames, free_frames |-> free_frames, pid_to_frames |-> pid_to_frames,
   page_faults |-> page_faults, allocations |-> allocations,
   deallocations |-> deallocations, algorithm |-> algorithm,
   page_tables |-> page_tables, fifo |-> fifo, lru |-> lru,
   loadOrder |-> loadOrder, useOrder |-> useOrder, evicted |-> evicted,
   result |-> result]

\* the engine's state becomes s
Engine(s) ==
  /\ total_kb' = s.total_kb
  /\ frame_kb' = s.frame_kb
  /\ frames' = s.frames
  /\ free_frames' = s.free_frames
  /\ pid_to_frames' = s.pid_to_frames
  /\ page_faults' = s.page_faults
  /\ allocations' = s.allocations
  /\ deallocations' = s.deallocations
  /\ algorithm' = s.algorithm
  /\ page_tables' = s.page_tables
  /\ fifo' = s.fifo
  /\ lru' = s.lru
  /\ loadOrder' = s.loadOrder
  /\ useOrder' = s.useOrder
  /\ evicted' = s.evicted
  /\ result' = s.result

\* a handler that runs from start to end with no other thread in between
Becomes(s) == Engine(s) /\ UNCHANGED threads

\* ------------------------------------------------------- MemoryManager
\* MemoryManager._rebuild with total_kb = total, frame_kb = frame (frame # 0)
rebuild(s, total, frame) ==
  LET n == FrameCount(total, frame) IN
  [s EXCEPT !.total_kb = total,
            !.frame_kb = frame,
            !.frames = [i \in 0..(n - 1) |-> FreeFrame],
            !.free_frames = 0..(n - 1),
            !.pid_to_frames = [p \in {} |-> {}],
            !.page_faults = 0,
            !.allocations = 0,
            !.deallocations = 0,
            !.loadOrder = <<>>,
            !.useOrder = <<>>,
            !.evicted = {}]

\* alloc_pages refusing a request for all the free frames (>= for >)
alloc_pages_strict(s, pid, num_pages, chosen) ==
  IF num_pages >= Cardinality(s.free_frames)
  THEN [s EXCEPT !.result = Res("alloc_pages", pid, num_pages, "fail", NoFrame)]
  ELSE [s EXCEPT
          !.free_frames = @ \ chosen,
          !.frames = [i \in DOMAIN @ |->
                        IF i \in chosen THEN [pid |-> pid, label |-> NoLabel] ELSE @[i]],
          !.pid_to_frames =
             DictSet(@, pid, (IF pid \in DOMAIN @ THEN @[pid] ELSE {}) \cup chosen),
          !.allocations = @ + 1,
          !.loadOrder = Forget(@, chosen),
          !.useOrder = Forget(@, chosen),
          !.result = Res("alloc_pages", pid, num_pages, "ok", NoFrame)]

\* MemoryManager.alloc_pages(pid, num_pages); chosen = the frames the pops yield.
\* The result records the requested count in its page field.
alloc_pages(s, pid, num_pages, chosen) ==
  IF num_pages > Cardinality(s.free_frames)
  THEN [s EXCEPT !.result = Res("alloc_pages", pid, num_pages, "fail", NoFrame)]
  ELSE [s EXCEPT
          !.free_frames = @ \ chosen,
          !.frames = [i \in DOMAIN @ |->
                        IF i \in chosen THEN [pid |-> pid, label |-> NoLabel] ELSE @[i]],
          !.pid_to_frames =
             DictSet(@, pid, (IF pid \in DOMAIN @ THEN @[pid] ELSE {}) \cup chosen),
          !.allocations = @ + 1,
          !.loadOrder = Forget(@, chosen),
          !.useOrder = Forget(@, chosen),
          !.result = Res("alloc_pages", pid, num_pages, "ok", NoFrame)]

\* MemoryManager.free_pid(pid)
free_pid(s, pid) ==
  IF pid \notin DOMAIN s.pid_to_frames
  THEN [s EXCEPT !.result = Res("free_pid", pid, NoLabel, "fail", NoFrame)]
  ELSE LET owned == s.pid_to_frames[pid] IN
       [s EXCEPT
          !.frames = ClearFrames(@, owned),
          !.free_frames = @ \cup owned,
          !.pid_to_frames = DictDel(@, pid),
          !.deallocations = @ + 1,
          !.loadOrder = Forget(@, owned),
          !.useOrder = Forget(@, owned),
          !.result = Res("free_pid", pid, NoLabel, "ok", NoFrame)]

\* --------------------------------------------------------------- Pager
\* Pager.__init__(mem, algorithm)
new_pager(s, algo) ==
  [s EXCEPT !.algorithm = algo,
            !.page_tables = [p \in {} |-> EmptyTable],
            !.fifo = <<>>,
            !.lru = <<>>]

\* Pager.reset(algorithm); algo = "None" keeps the current policy
pager_reset(s, algo) ==
  [s EXCEPT !.algorithm = IF algo = "None" THEN @ ELSE algo,
            !.page_tables = [p \in {} |-> EmptyTable],
            !.fifo = <<>>,
            !.lru = <<>>,
            !.evicted = {},
            !.loadOrder = <<>>,
            !.useOrder = <<>>,
            !.result = Res("pager_reset", NoPid, NoLabel, "ok", NoFrame)]

\* the frames that hold the page the table of pid maps to them
HeldFrames(s, pid) ==
  IF pid \notin DOMAIN s.page_tables THEN {}
  ELSE {f \in DOMAIN s.frames :
          \E n \in DOMAIN s.page_tables[pid] :
            s.page_tables[pid][n] = f /\ s.frames[f] = [pid |-> pid, label |-> n]}

\* Pager.create_process(pid, num_pages)
create_process(s, pid, num_pages) ==
  [s EXCEPT !.page_tables = DictSet(@, pid, [p \in 0..(num_pages - 1) |-> NoFrame]),
            !.evicted = {e \in @ : e[1] # pid},
            !.loadOrder = Forget(@, HeldFrames(s, pid)),
            !.useOrder = Forget(@, HeldFrames(s, pid)),
            !.result = Res("create_process", pid, NoLabel, "ok", NoFrame)]

\* the frames the page table of pid maps a page to
MappedFrames(s, pid) ==
  {s.page_tables[pid][p] : p \in {q \in DOMAIN s.page_tables[pid] : s.page_tables[pid][q] # NoFrame}}

\* Pager.deallocate_pid(pid)
deallocate_pid(s, pid) ==
  IF pid \notin DOMAIN s.page_tables
  THEN [s EXCEPT !.result = Res("deallocate_pid", pid, NoLabel, "unknown", NoFrame)]
  ELSE LET mapped == MappedFrames(s, pid) IN
       [s EXCEPT
          !.frames = ClearFrames(@, mapped),
          !.free_frames = @ \cup mapped,
          !.page_tables = DictDel(@, pid),
          !.lru = SelectSeq(@, LAMBDA e : e.pid # pid),
          !.evicted = {e \in @ : e[1] # pid},
          !.loadOrder = Forget(@, mapped),
          !.useOrder = Forget(@, mapped),
          !.result = Res("deallocate_pid", pid, NoLabel, "ok", NoFrame)]

\* the table of pid after self.page_tables.setdefault(pid, {})
TableOf(s, pid) == IF pid \in DOMAIN s.page_tables THEN s.page_tables[pid] ELSE EmptyTable

\* lines 151-164 of access_page: frame fidx receives (pid, page_no)
load_page(s, pid, page_no, fidx) ==
  [s EXCEPT
     !.frames = [@ EXCEPT ![fidx] = [pid |-> pid, label |-> page_no]],
     !.pid_to_frames = DictSet(@, pid, (IF pid \in DOMAIN @ THEN @[pid] ELSE {}) \cup {fidx}),
     !.page_tables = DictSet(@, pid, DictSet(TableOf(s, pid), page_no, fidx)),
     !.fifo = IF s.algorithm = "FIFO" THEN Append(@, fidx) ELSE @,
     !.lru = IF s.algorithm = "FIFO" THEN @ ELSE LruTouch(@, pid, page_no),
     !.loadOrder = Latest(@, fidx),
     !.useOrder = Latest(@, fidx),
     !.evicted = @ \ {<<pid, page_no>>},
     !.result = Res("access_page", pid, page_no, "loaded", fidx)]

\* history: the page frame fidx holds (if any) is evicted by the victim selection
Displaced(s, fidx) ==
  [s EXCEPT !.evicted =
     IF s.frames[fidx].pid # NoPid /\ s.frames[fidx].label # NoLabel
     THEN @ \cup {<<s.frames[fidx].pid, s.frames[fidx].label>>} ELSE @]

\* lines 138-147 of access_page: the LRU victim is popped and its frame released;
\* pick = the frame random.randrange yields when the victim holds no frame
lru_evict(s, pid, page_no, pick) ==
  LET v == Head(s.lru)
      popped == [s EXCEPT !.lru = Tail(@)]
  IN IF v.pid \notin DOMAIN s.page_tables \/ v.page \notin DOMAIN s.page_tables[v.pid]
     THEN \* KeyError at self.page_tables[vpid][vp]
          [popped EXCEPT !.result = Res("access_page", pid, page_no, "KeyError", NoFrame)]
     ELSE LET old_frame == s.page_tables[v.pid][v.page]
              released ==
                [popped EXCEPT
                   !.frames = IF old_frame # NoFrame THEN ClearFrames(@, {old_frame}) ELSE @,
                   !.free_frames = IF old_frame # NoFrame THEN @ \cup {old_frame} ELSE @,
                   !.evicted = IF old_frame # NoFrame THEN @ \cup {<<v.pid, v.page>>} ELSE @,
                   !.loadOrder = Forget(@, {old_frame}),
                   !.useOrder = Forget(@, {old_frame}),
                   !.page_tables = [@ EXCEPT ![v.pid] = [@ EXCEPT ![v.page] = NoFrame]]]
          IN [released EXCEPT !.result =
                Res("access_page", pid, page_no, "taken",
                    IF old_frame # NoFrame THEN old_frame ELSE pick)]

\* charge_access with the charge skipped for a process that has no table yet
charge_access_known(s, pid) ==
  [s EXCEPT !.page_faults = IF pid \in DOMAIN s.page_tables THEN @ + 1 ELSE @,
            !.page_tables = DictSet(@, pid, TableOf(s, pid))]

\* lines 120-121 of access_page: the access is charged, the table looked up
charge_access(s, pid) ==
  [s EXCEPT !.page_faults = @ + 1,
            !.page_tables = DictSet(@, pid, TableOf(s, pid))]

\* line 123 of access_page: the hit test
is_hit(s, pid, page_no) ==
  /\ pid \in DOMAIN s.page_tables
  /\ page_no \in DOMAIN s.page_tables[pid]
  /\ s.page_tables[pid][page_no] # NoFrame

\* hit_page without the move_to_end of the LRU ordering
hit_page_unmoved(s, pid, page_no) ==
  LET fidx == s.page_tables[pid][page_no] IN
  [s EXCEPT !.useOrder = IF s.frames[fidx] = [pid |-> pid, label |-> page_no]
                         THEN Latest(@, fidx) ELSE @,
            !.result = Res("access_page", pid, page_no, "hit", fidx)]

\* lines 124-128 of access_page: a hit
hit_page(s, pid, page_no) ==
  LET fidx == s.page_tables[pid][page_no] IN
  [s EXCEPT
     !.lru = IF s.algorithm = "LRU" THEN LruTouch(@, pid, page_no) ELSE @,
     !.useOrder = IF s.frames[fidx] = [pid |-> pid, label |-> page_no]
                  THEN Latest(@, fidx) ELSE @,
     !.result = Res("access_page", pid, page_no, "hit", fidx)]

\* a frame has been chosen for the faulting page
Taken(s, pid, page_no, fidx) ==
  [s EXCEPT !.result = Res("access_page", pid, page_no, "taken", fidx)]

\* lines 131-149 of access_page: a frame is found for the faulting page.
\* sawFree = what the test of line 131 found; the pop of line 132 raises
\* KeyError when the set is empty by then
take_frame(s, pid, page_no, sawFree, pick) ==
  IF sawFree
  THEN IF s.free_frames = {}
       THEN [s EXCEPT !.result = Res("access_page", pid, page_no, "KeyError", NoFrame)]
       ELSE Taken([s EXCEPT !.free_frames = @ \ {pick}], pid, page_no, pick)
  ELSE IF s.algorithm = "FIFO"
  THEN IF s.fifo # <<>>
       THEN Taken(Displaced([s EXCEPT !.fifo = Tail(@)], Head(s.fifo)),
                  pid, page_no, Head(s.fifo))
       ELSE Taken(Displaced(s, pick), pid, page_no, pick)
  ELSE IF s.lru # <<>>
       THEN lru_evict(s, pid, page_no, pick)
       ELSE Taken(Displaced(s, pick), pid, page_no, pick)

\* lines 131-164 of access_page: a fault; the chosen frame receives the page
fault_page(s, pid, page_no, sawFree, pick) ==
  LET t == take_frame(s, pid, page_no, sawFree, pick)
  IN IF t.result.status = "taken"
     THEN load_page(t, pid, page_no, t.result.frame)
     ELSE t

\* Pager.access_page(pid, page_no); pick = the frame free_frames.pop() or
\* random.randrange(len(frames)) yields where the code calls one of them
access_page(s, pid, page_no, pick) ==
  LET s1 == charge_access(s, pid)
  IN IF is_hit(s1, pid, page_no)
     THEN hit_page(s1, pid, page_no)
     ELSE fault_page(s1, pid, page_no, s1.free_frames # {}, pick)

\* the values pick may take in access_page: an element of the free set where
\* the code pops one, any frame index where it may draw one at random
Picks(s) == IF s.free_frames # {} THEN s.free_frames ELSE DOMAIN s.frames

\* ------------------------------------------------------------- handlers
\* on_deallocate(data) with a non-empty pid
on_deallocate(s, pid) ==
  LET t == free_pid(deallocate_pid(s, pid), pid) IN
  [t EXCEPT !.result = Res("on_deallocate", pid, NoLabel, t.result.status, NoFrame)]

\* MemoryManager.reset(total_kb, frame_kb): the sizes are stored, then _rebuild
\* divides by frame_kb
mem_reset(s, total, frame) ==
  IF frame = 0
  THEN [s EXCEPT !.total_kb = total,
                 !.frame_kb = frame,
                 !.result = Res("reset", NoPid, NoLabel, "ZeroDivisionError", NoFrame)]
  ELSE [rebuild(s, total, frame) EXCEPT !.result = Res("reset", NoPid, NoLabel, "ok", NoFrame)]

\* on_apply_config(data): an error of mem.reset leaves the old Pager in place
on_apply_config(s, total, frame, algo) ==
  LET t == mem_reset(s, total, frame) IN
  IF t.result.status # "ok"
  THEN [t EXCEPT !.result = Res("on_apply_config", NoPid, NoLabel, t.result.status, NoFrame)]
  ELSE [new_pager(t, algo)
          EXCEPT !.result = Res("on_apply_config", NoPid, NoLabel, "ok", NoFrame)]

\* state_snapshot(), without the host's system_mem reading
state_snapshot(s) ==
  [frames |-> s.frames,
   used |-> used_and_total(s)[1],
   total |-> used_and_total(s)[2],
   page_faults |-> s.page_faults,
   allocations |-> s.allocations,
   deallocations |-> s.deallocations,
   pids |-> DOMAIN s.pid_to_frames \cup DOMAIN s.page_tables]

\* ------------------------------------------------------------------- Init
\* the threads that call into the engine: the background run loop and the
\* thread the server runs an event handler on
Threads == {"run_loop", "handler"}

\* a thread outside access_page
Idle == [pc |-> "idle", pid |-> NoPid, page |-> NoLabel, sawFree |-> FALSE, frame |-> NoFrame]

\* The engine as constructed (SIM): a rebuilt pool and a fresh Pager, as
\* on_apply_config builds them.
Blank ==
  [total_kb |-> 0, frame_kb |-> 0,
   frames |-> <<>>, free_frames |-> {}, pid_to_frames |-> <<>>, page_faults |-> 0,
   allocations |-> 0, deallocations |-> 0, algorithm |-> "FIFO", page_tables |-> <<>>,
   fifo |-> <<>>, lru |-> <<>>, loadOrder |-> <<>>, useOrder |-> <<>>,
   evicted |-> {},
   result |-> Res("init", NoPid, NoLabel, "ok", NoFrame)]

Init ==
  \E n \in 1..MaxFrames, algo \in Algorithms :
    LET s == [on_apply_config(Blank, n * FrameKb, FrameKb, algo)
                EXCEPT !.result = Blank.result] IN
    /\ threads = [t \in Threads |-> Idle]
    /\ total_kb = s.total_kb
    /\ frame_kb = s.frame_kb
    /\ frames = s.frames
    /\ free_frames = s.free_frames
    /\ pid_to_frames = s.pid_to_frames
    /\ page_faults = s.page_faults
    /\ allocations = s.allocations
    /\ deallocations = s.deallocations
    /\ algorithm = s.algorithm
    /\ page_tables = s.page_tables
    /\ fifo = s.fifo
    /\ lru = s.lru
    /\ loadOrder = s.loadOrder
    /\ useOrder = s.useOrder
    /\ evicted = s.evicted
    /\ result = s.result

\* ---------------------------------------------------------------- actions
CreateProcess == \E pid \in Pids, n \in 1..(MaxPage + 1) : Becomes(create_process(Cur, pid, n))

AccessPage ==
  /\ page_faults < MaxFaults
  /\ \E pid \in Pids, page_no \in Pages, pick \in Picks(Cur) :
       Becomes(access_page(Cur, pid, page_no, pick))

DeallocatePid == \E pid \in Pids : Becomes(deallocate_pid(Cur, pid))

AllocPages ==
  /\ allocations < MaxAllocs
  /\ \E pid \in Pids, n \in 0..MaxFrames, chosen \in SUBSET free_frames :
       /\ n > Cardinality(free_frames) => chosen = {}
       /\ n <= Cardinality(free_frames) => Cardinality(chosen) = n
       /\ Becomes(alloc_pages(Cur, pid, n, chosen))

FreePid ==
  /\ deallocations < MaxDeallocs
  /\ \E pid \in Pids : Becomes(free_pid(Cur, pid))

OnDeallocate ==
  /\ deallocations < MaxDeallocs
  /\ \E pid \in Pids : Becomes(on_deallocate(Cur, pid))

PagerReset == \E algo \in Algorithms \cup {"None"} : Becomes(pager_reset(Cur, algo))

\* the total_kb and frame_kb values a client sends: int(data.get(...)) accepts
\* every integer, zero and negatives included
TotalKbs == {0 - FrameKb, 0, FrameKb, MaxFrames * FrameKb}
FrameKbs == {0 - FrameKb, 0, FrameKb}

ApplyConfig ==
  \E total \in TotalKbs, frame \in FrameKbs, algo \in Algorithms :
    Becomes(on_apply_config(Cur, total, frame, algo))

\* access_page run by thread t (sim_step called from run_loop, or from on_step
\* on a handler thread; no lock is taken). Lines 120-131: the access is charged
\* and the hit test made; a hit completes, a fault has evaluated the test
\* `if self.mem.free_frames` and remembers what it found.
ThreadBegin(t) ==
  /\ threads[t].pc = "idle"
  /\ page_faults < MaxFaults
  /\ \E pid \in Pids, page_no \in Pages :
       LET s1 == charge_access(Cur, pid) IN
       IF is_hit(s1, pid, page_no)
       THEN /\ Engine(hit_page(s1, pid, page_no))
            /\ UNCHANGED threads
       ELSE /\ Engine([s1 EXCEPT !.result = Res("access_page", pid, page_no, "fault", NoFrame)])
            /\ threads' = [threads EXCEPT ![t] =
                 [pc |-> "fault", pid |-> pid, page |-> page_no,
                  sawFree |-> s1.free_frames # {}, frame |-> NoFrame]]

\* lines 132-149 run by thread t: the frame is popped or the victim chosen,
\* on the branch the test of line 131 selected; an exception ends the call
ThreadTake(t) ==
  /\ threads[t].pc = "fault"
  /\ \E pick \in (IF threads[t].sawFree /\ free_frames # {}
                  THEN free_frames ELSE DOMAIN frames) :
       LET s2 == take_frame(Cur, threads[t].pid, threads[t].page, threads[t].sawFree, pick) IN
       /\ Engine(s2)
       /\ threads' = [threads EXCEPT ![t] =
            IF s2.result.status = "taken"
            THEN [@ EXCEPT !.pc = "install", !.frame = s2.result.frame]
            ELSE Idle]

\* lines 151-164 run by thread t: the chosen frame receives the page
ThreadInstall(t) ==
  /\ threads[t].pc = "install"
  /\ Engine(load_page(Cur, threads[t].pid, threads[t].page, threads[t].frame))
  /\ threads' = [threads EXCEPT ![t] = Idle]

\* Every operation the handlers of the program reach, and the pool's own.
Next ==
  \/ CreateProcess
  \/ AccessPage
  \/ AllocPages
  \/ FreePid
  \/ OnDeallocate

Spec == Init /\ [][Next]_vars

\* The paging operations alone: admission, access, teardown.
NextPaging ==
  \/ CreateProcess
  \/ AccessPage
  \/ DeallocatePid
  \/ OnDeallocate

SpecPaging == Init /\ [][NextPaging]_vars

\* The Pager's own methods, reset included.
NextPager ==
  \/ CreateProcess
  \/ AccessPage
  \/ DeallocatePid
  \/ PagerReset

SpecPager == Init /\ [][NextPager]_vars

\* Reconfiguration between uses of the engine.
NextConfig ==
  \/ ApplyConfig
  \/ AccessPage
  \/ AllocPages
  \/ OnDeallocate

SpecConfig == Init /\ [][NextConfig]_vars

\* The run loop and an event handler, each on its own thread
\* (async_mode="threading"), calling access_page on the shared engine.
NextThreads ==
  \E t \in Threads :
    \/ ThreadBegin(t)
    \/ ThreadTake(t)
    \/ ThreadInstall(t)

SpecThreads == Init /\ [][NextThreads]_vars

\* ================================================================ claims
\* the frame indices recorded as owned, summed over the processes
RECURSIVE SumOwned(_, _)
SumOwned(d, ps) ==
  IF ps = {} THEN 0
  ELSE LET p == CHOOSE x \in ps : TRUE
       IN Cardinality(d[p]) + SumOwned(d, ps \ {p})

\* page n of process p has a non-absent page-table entry
Resident(p, n) ==
  /\ p \in DOMAIN page_tables
  /\ n \in DOMAIN page_tables[p]
  /\ page_tables[p][n] # NoFrame

\* a step that is an access_page call which resolved a fault
FaultStep ==
  /\ page_faults' = page_faults + 1
  /\ result'.op = "access_page"
  /\ result'.status = "loaded"

\* a step that is an access_page call which returned "hit"
HitStep ==
  /\ page_faults' = page_faults + 1
  /\ result'.op = "access_page"
  /\ result'.status = "hit"

\* C1: Conservation: the number of free frame indices plus the sum over all
\* processes of the size of their owned-frame set equals the total frame count.
C1_Conservation ==
  Cardinality(free_frames) + SumOwned(pid_to_frames, DOMAIN pid_to_frames)
    = Cardinality(DOMAIN frames)

\* C2: Single ownership: no frame index is a member of the owned-frame set
\* (pid_to_frames) of two different processes.
C2_SingleOwnership ==
  \A p \in DOMAIN pid_to_frames, q \in DOMAIN pid_to_frames :
    p # q => pid_to_frames[p] \cap pid_to_frames[q] = {}

\* C3: every non-absent page-table entry of a process P references a frame
\* whose owner field equals P.
C3_EntryOwner ==
  \A p \in DOMAIN page_tables : \A n \in DOMAIN page_tables[p] :
    page_tables[p][n] # NoFrame => frames[page_tables[p][n]].pid = p

\* C4: a frame has a non-absent owner if and only if some process's page
\* table maps some page to that frame index.
C4_OwnerIffMapped ==
  \A f \in DOMAIN frames :
    frames[f].pid # NoPid
      <=> \E p \in DOMAIN page_tables : \E n \in DOMAIN page_tables[p] :
            page_tables[p][n] = f

\* C5: the free-frame set is exactly the set of frame indices whose owner is
\* absent, so the used count of occupancy() equals total minus the size of
\* the free set.
C5_FreeIsUnowned ==
  /\ free_frames = {f \in DOMAIN frames : frames[f].pid = NoPid}
  /\ used_and_total(Cur)[1] = used_and_total(Cur)[2] - Cardinality(free_frames)

\* C6: FIFO order: under FIFO, a fault with no free frame reuses the frame
\* whose resident page was loaded earliest among all resident pages.
C6_FifoOrder ==
  [][(algorithm = "FIFO" /\ free_frames = {} /\ loadOrder # <<>> /\ FaultStep)
       => result'.frame = Head(loadOrder)]_vars

\* C7: after an eviction the evicted (process, page) entry is absent: an
\* access to an evicted page that was not loaded again since never returns "hit".
C7_EvictedNeverHit ==
  [][HitStep => <<result'.pid, result'.page>> \notin evicted]_vars

\* C8: LRU recency: under LRU, a fault while every frame holds a resident page
\* takes the frame of exactly one page, the resident page whose last access
\* (load or hit) is the oldest.
C8_LruRecency ==
  [][(algorithm = "LRU" /\ FaultStep
        /\ \A f \in DOMAIN frames : \E i \in 1..Len(useOrder) : useOrder[i] = f)
       => /\ result'.frame = Head(useOrder)
          /\ \A f \in DOMAIN frames : f # result'.frame => frames'[f] = frames[f]]_vars

\* C9: Teardown correctness: deallocating process P (deallocate_pid followed by
\* free_pid) adds to the free set exactly the frames whose owner was P, and
\* leaves unchanged the owner and label of every frame owned by another process
\* and every other process's page table.
C9_TeardownExact ==
  [][(result'.op = "on_deallocate")
       => LET P == result'.pid IN
          /\ free_frames' = free_frames \cup {f \in DOMAIN frames : frames[f].pid = P}
          /\ \A f \in DOMAIN frames :
               frames[f].pid \notin {P, NoPid} => frames'[f] = frames[f]
          /\ \A q \in DOMAIN page_tables :
               q # P => q \in DOMAIN page_tables' /\ page_tables'[q] = page_tables[q]]_vars

\* C10: every bookkeeping entry of the active replacement policy refers to a
\* currently resident mapping: each LRU key (P, n) has page n of P resident, and
\* each frame index in the FIFO queue occurs once and holds a resident page.
C10_BookkeepingResident ==
  /\ algorithm = "LRU" =>
       \A i \in 1..Len(lru) : Resident(lru[i].pid, lru[i].page)
  /\ algorithm = "FIFO" =>
       /\ \A i \in 1..Len(fifo), j \in 1..Len(fifo) : fifo[i] = fifo[j] => i = j
       /\ \A i \in 1..Len(fifo) :
            \E p \in DOMAIN page_tables : \E n \in DOMAIN page_tables[p] :
              page_tables[p][n] = fifo[i] /\ frames[fifo[i]].pid = p

\* C11: Counter monotonicity: with no reconfiguration in between, every
\* access_page call (hit or fault, known or unknown process) increases
\* page_faults by exactly 1 and no other operation changes it, so it never
\* decreases.
C11_CounterMonotone ==
  [][/\ page_faults' >= page_faults
     /\ IF result'.op = "access_page"
        THEN page_faults' = page_faults + 1
        ELSE page_faults' = page_faults]_vars

\* C11 witness: a hit has been charged after an earlier access.
C11_Witness ==
  /\ result.op = "access_page"
  /\ result.status = "hit"
  /\ page_faults >= 2

\* the owned-frame set of process p (empty when p has no record)
OwnedSet(d, p) == IF p \in DOMAIN d THEN d[p] ELSE {}

\* C12: allocate_contiguous_block(P, count) succeeds if and only if count is at
\* most the number of free frames; on failure no frame, free set, owned-frame
\* set or counter changes; on success exactly count previously free frames
\* become owned by P and are recorded in P's owned-frame set, and the
\* allocation counter increases by exactly 1.
C12_AllocContract ==
  [][(result'.op = "alloc_pages") =>
       LET P == result'.pid
           count == result'.page
           taken == free_frames \ free_frames'
       IN /\ (result'.status = "ok") <=> (count <= Cardinality(free_frames))
          /\ result'.status # "ok" =>
               /\ frames' = frames
               /\ free_frames' = free_frames
               /\ pid_to_frames' = pid_to_frames
               /\ allocations' = allocations
          /\ result'.status = "ok" =>
               /\ free_frames' \subseteq free_frames
               /\ Cardinality(taken) = count
               /\ \A f \in DOMAIN frames :
                    IF f \in taken THEN frames'[f].pid = P ELSE frames'[f] = frames[f]
               /\ \A q \in Pids :
                    OwnedSet(pid_to_frames', q)
                      = OwnedSet(pid_to_frames, q) \cup (IF q = P THEN taken ELSE {})
               /\ P \in DOMAIN pid_to_frames'
               /\ allocations' = allocations + 1
          /\ page_faults' = page_faults
          /\ deallocations' = deallocations]_vars

\* C12 witness: an allocation of at least one frame has succeeded.
C12_Witness ==
  /\ result.op = "alloc_pages"
  /\ result.status = "ok"
  /\ result.page >= 1
  /\ Cardinality(OwnedSet(pid_to_frames, result.pid)) >= result.page

\* C13: release_process(P) signals a "not found" failure and changes nothing
\* (the deallocation counter included) whenever P owns no frames, also after a
\* zero-count allocation for P; otherwise it clears ownership of every frame in
\* P's owned-frame set, returns those frames to the free set, removes P's
\* record and increases the deallocation counter by exactly 1.
C13_ReleaseContract ==
  [][(result'.op = "free_pid") =>
       LET P == result'.pid
           owned == OwnedSet(pid_to_frames, P)
       IN IF owned = {}
          THEN /\ result'.status = "fail"
               /\ frames' = frames
               /\ free_frames' = free_frames
               /\ pid_to_frames' = pid_to_frames
               /\ deallocations' = deallocations
          ELSE /\ result'.status = "ok"
               /\ \A f \in DOMAIN frames :
                    IF f \in owned THEN frames'[f] = FreeFrame ELSE frames'[f] = frames[f]
               /\ free_frames' = free_frames \cup owned
               /\ P \notin DOMAIN pid_to_frames'
               /\ deallocations' = deallocations + 1]_vars

\* a snapshot of a freshly configured engine
CleanSnapshot(snap) ==
  /\ snap.used = 0
  /\ \A i \in DOMAIN snap.frames : snap.frames[i] = FreeFrame
  /\ snap.page_faults = 0
  /\ snap.allocations = 0
  /\ snap.deallocations = 0
  /\ snap.pids = {}

\* the step is a reconfiguration that leaves a clean engine, and a second one
\* with the same sizes leaves the same snapshot
ReconfiguresCleanly ==
  LET again == on_apply_config(Cur', total_kb', frame_kb', algorithm')
  IN /\ CleanSnapshot(state_snapshot(Cur'))
     /\ free_frames' = DOMAIN frames'
     /\ state_snapshot(again) = state_snapshot(Cur')
     /\ again.free_frames = free_frames'

\* C14: Idempotent reconfigure: reconfiguring the engine (pool initialize plus
\* fresh pager) from any reachable state yields a snapshot with used = 0, every
\* frame unowned and in the free set, all three counters zero and no known
\* process; applying the same total capacity and frame size a second time
\* yields an identical snapshot.
C14_IdempotentReconfigure ==
  [][(result'.op = "on_apply_config") => ReconfiguresCleanly]_vars

\* the same for the reconfigurations whose frame size is not zero
ReconfigureNonZero ==
  [][(result'.op = "on_apply_config" /\ frame_kb' # 0) => ReconfiguresCleanly]_vars

\* C15: Degenerate configuration: for every integer total_capacity and
\* frame_size, zero and negative values of either included, initialize
\* completes without an error and leaves a pool of
\* max(1, total_capacity / frame_size) frames, hence at least one frame, all free.
C15_DegenerateConfig ==
  [][(result'.op = "on_apply_config") =>
       /\ result'.status = "ok"
       /\ Cardinality(DOMAIN frames') = FrameCount(total_kb', frame_kb')
       /\ Cardinality(DOMAIN frames') >= 1
       /\ free_frames' = DOMAIN frames'
       /\ \A i \in DOMAIN frames' : frames'[i] = FreeFrame]_vars

\* C16: access_page has no failure path: in every state reachable by admission
\* (re-admission with a different page count included), access and teardown,
\* under FIFO and under LRU, access_page(P, n) returns "hit" or "loaded in
\* frame <index>" with page n of P resident afterwards; it never aborts after
\* having changed the fault counter or the policy bookkeeping.
C16_AccessNeverFails ==
  [][(result'.op = "access_page") =>
       /\ result'.status \in {"hit", "loaded"}
       /\ result'.pid \in DOMAIN page_tables'
       /\ result'.page \in DOMAIN page_tables'[result'.pid]
       /\ page_tables'[result'.pid][result'.page] = result'.frame
       /\ result'.frame # NoFrame]_vars

\* C17: A hit changes nothing but the fault counter and, under LRU, the
\* recency order: when access_page(P, n) returns "hit", every page table, every
\* frame's owner and label, the free set, the owned-frame sets and the FIFO
\* queue are unchanged; under LRU the only bookkeeping change is that (P, n)
\* becomes the most recently used entry.
C17_HitChangesNothing ==
  [][HitStep =>
       LET key == [pid |-> result'.pid, page |-> result'.page]
           Others(l) == SelectSeq(l, LAMBDA k : k # key)
       IN /\ page_tables' = page_tables
          /\ frames' = frames
          /\ free_frames' = free_frames
          /\ pid_to_frames' = pid_to_frames
          /\ fifo' = fifo
          /\ allocations' = allocations
          /\ deallocations' = deallocations
          /\ algorithm' = algorithm
          /\ IF algorithm = "LRU"
             THEN lru' = Append(Others(lru), key)
             ELSE lru' = lru]_vars

\* C17 witness: a hit under LRU with another page in the recency order.
C17_Witness ==
  /\ result.op = "access_page"
  /\ result.status = "hit"
  /\ algorithm = "LRU"
  /\ Len(lru) >= 2
  /\ lru[Len(lru)] = [pid |-> result.pid, page |-> result.page]

\* a step that is an access_page call which faulted with no free frame
FullFaultStep ==
  /\ result'.op = "access_page"
  /\ result'.status # "hit"
  /\ page_faults' = page_faults + 1
  /\ free_frames = {}

\* C18: The random-victim fallback is unreachable through the paging
\* operations: in every state reachable by admission, access and teardown under
\* one policy, whenever access_page faults with no free frame the active
\* policy's structure (FIFO queue, or LRU ordering) is non-empty and names a
\* victim whose page-table entry is resident.
C18_FallbackUnreachable ==
  [][FullFaultStep =>
       IF algorithm = "FIFO"
       THEN /\ fifo # <<>>
            /\ \E p \in DOMAIN page_tables : \E n \in DOMAIN page_tables[p] :
                 page_tables[p][n] = Head(fifo)
       ELSE /\ lru # <<>>
            /\ Resident(Head(lru).pid, Head(lru).page)]_vars

\* the (process, page) pairs with a non-absent page-table entry
ResidentPairs ==
  {pn \in Pids \X Pages : Resident(pn[1], pn[2])}

\* C20: No frame is shared by two resident mappings: in every reachable state,
\* any two distinct (process, page) pairs with non-absent page-table entries
\* reference different frame indices, so the number of resident pages never
\* exceeds the total frame count.
C20_NoSharedFrame ==
  /\ \A a \in ResidentPairs : \A b \in ResidentPairs :
       a # b => page_tables[a[1]][a[2]] # page_tables[b[1]][b[2]]
  /\ Cardinality(ResidentPairs) <= Cardinality(DOMAIN frames)

\* the threads that are inside an engine operation
Inside == {t \in Threads : threads[t].pc # "idle"}

\* C19: Engine operations never interleave: the run loop's simulated step and
\* the event handlers' operations each run as one atomic step against the
\* shared engine, so no operation observes another's intermediate state (two
\* faults both finding the same last free frame, for example).
C19_NeverInterleave ==
  /\ Cardinality(Inside) <= 1
  /\ \A t \in Inside :
       threads[t].pc = "fault" /\ threads[t].sawFree => free_frames # {}

====
